---- MODULE Spec2Model ----
(***************************************************************************)
(* Model of the two job-scraper scripts of "Web Scraper &Automation":      *)
(*   test1.py  the static variant  (requests + BeautifulSoup, Indeed)      *)
(*   test2.py  the dynamic variant (Selenium, Google Careers)              *)
(* One run of one script is one behaviour.  The web site, the network and  *)
(* the browser are the environment: what they answer is chosen with \E.    *)
(* Texts and URLs are sequences of tokens, so that concatenation, strip    *)
(* and join are computed and not assumed.                                  *)
(***************************************************************************)
EXTENDS Naturals, Sequences, FiniteSets, TLC

\* ------------------------------------------------------------- bounds
MaxPages == 2
MaxCards == 2

\* ---------------------------------------------------- values of the DOM
\* What may be missing is a sequence of no or one element.
Some(x) == <<x>>
Get(o)  == o[1]
NoElem == <<>>                 \* find() returned None / find_element raised
NoAttr == <<>>                 \* the tag carries no href attribute
None   == <<>>                 \* Python's None
NoFile == <<>>                 \* no CSV file was created

Scheme == "https://"
Host   == "www.indeed.com"
PathTokens == {"/rc/clk?jk=1", "/pagead/clk"}

\* "https://www.indeed.com", test1.py line 75
IndeedOrigin == <<Scheme, Host>>

\* 'N/A', test1.py lines 66, 69, 72
Sentinel == <<"N/A">>

\* The texts the site serves: .text with its surrounding whitespace.
RawTitle    == <<" ", "Python Developer", " ">>
RawCompany  == <<"Acme", " ">>
RawLocation == <<" ", "Remote">>

\* The forms an href attribute takes on the static site.
HrefRelative == <<"/rc/clk?jk=1">>
HrefAbsolute == <<Scheme, Host, "/pagead/clk">>
HrefEmpty    == <<>>
StaticHrefs  == {NoAttr, Some(HrefRelative), Some(HrefAbsolute), Some(HrefEmpty)}

\* An 'a.tapItem' card of the static site: each sub-field is there or not.
StaticCards ==
  [title : {NoElem, Some(RawTitle)}, company : {NoElem, Some(RawCompany)},
   location : {NoElem, Some(RawLocation)}, href : StaticHrefs]

\* The href property Selenium reads is already resolved by the browser.
GoogleLink == <<Scheme, "www.google.com", "/about/careers/applications/jobs/results/1">>

\* A 'sMn82b' card of the dynamic site: title element, location spans, anchor.
DynFull     == [title |-> Some(<<"Software Engineer">>),
                locs |-> << <<"Zurich">>, <<"London">> >>, anchor |-> Some(GoogleLink)]
DynNoTitle  == [DynFull EXCEPT !.title = NoElem]
DynNoLocs   == [DynFull EXCEPT !.locs = <<>>]
DynNoAnchor == [DynFull EXCEPT !.anchor = NoElem]
DynCards    == {DynFull, DynNoTitle, DynNoLocs, DynNoAnchor}

RECURSIVE SeqsUpTo(_, _)
SeqsUpTo(S, n) ==
  IF n = 0 THEN {<<>>}
  ELSE LET shorter == SeqsUpTo(S, n - 1)
       IN shorter \cup {Append(s, x) : s \in {t \in shorter : Len(t) = n - 1}, x \in S}

\* ------------------------------------------------------ pure functions
\* str.strip() on a text: drops leading and trailing whitespace tokens.
RECURSIVE Strip(_)
Strip(s) ==
  IF s = <<>> THEN s
  ELSE IF Head(s) = " " THEN Strip(Tail(s))
  ELSE IF s[Len(s)] = " " THEN Strip(SubSeq(s, 1, Len(s) - 1))
  ELSE s

\* A faulty variant: a missing element gives the empty text instead of the sentinel.
TextOrEmpty(element) ==
  IF element = NoElem THEN <<>> ELSE Strip(Get(element))

\* element.text.strip() if element else 'N/A'
TextOrSentinel(element) ==
  IF element = NoElem THEN Sentinel ELSE Strip(Get(element))

\* ", ".join(texts)
RECURSIVE JoinComma(_)
JoinComma(texts) ==
  IF texts = <<>> THEN <<>>
  ELSE IF Len(texts) = 1 THEN texts[1]
  ELSE texts[1] \o <<", ">> \o JoinComma(Tail(texts))

\* "https://www.indeed.com" + card['href']
StaticLink(href) == IndeedOrigin \o href

\* The dict literal appended to jobs_data: keys in insertion order.
JobDict(t, c, l, k) ==
  << <<"Job Title", t>>, <<"Company", c>>, <<"Location", l>>, <<"Link", k>> >>

\* The record the static extractor builds from one card (href present).
StaticRecord(card) ==
  JobDict(TextOrSentinel(card.title), TextOrSentinel(card.company),
          TextOrSentinel(card.location), StaticLink(Get(card.href)))

\* Whether the dynamic extractor raises NoSuchElementException on the card.
DynRaises(card) == card.title = NoElem \/ card.anchor = NoElem

\* The record the dynamic extractor builds from one card it does not skip.
DynRecord(card) ==
  JobDict(Get(card.title), <<"Google">>, JoinComma(card.locs), Get(card.anchor))

\* dict lookup
DictGet(d, key) == (CHOOSE i \in 1..Len(d) : d[i][1] = key)

\* pd.DataFrame(jobs_data).to_csv(filename, index=False): the columns are the
\* keys of the dicts in insertion order, one row per dict.
ToCsv(data) ==
  LET columns == [i \in 1..Len(data[1]) |-> data[1][i][1]]
  IN [header |-> columns,
      rows |-> [r \in 1..Len(data) |->
                 [c \in 1..Len(columns) |-> data[r][DictGet(data[r], columns[c])][2]]]]

\* A faulty variant: only server errors raise.
RaisesFor5xxOnly(status) == status >= 500 /\ status < 600

\* response.raise_for_status(): raises for 4xx and 5xx
RaisesForStatus(status) == status >= 400 /\ status < 600

\* Python truthiness of a list-or-None
Truthy(x) == x # None /\ Get(x) # <<>>

\* ------------------------------------------------------- diagnostics
MsgFetchError   == "Error fetching the URL"
MsgNoContainer  == "Could not find the main job cards container. The website structure may have changed."
MsgNoCardsSame  == "Could not find the main job cards container. The website structure may have changed."
MsgNoCards      == "No job cards found. Try a different search term or check the class names."
MsgNoDataStatic == "No data to save."
MsgSavedStatic  == "Successfully saved data"
MsgTimeout      == "Timed out waiting for page content to load. Exiting."
MsgNoCardsPage  == "No job cards found on this page. The website structure might have changed."
MsgSkipCard     == "Skipping a card with missing information."
MsgNextDisabled == "Next button is not interactable. Reached the last page."
MsgNoNext       == "No 'Next' button found. Reached the last page."
MsgNoDataCsv    == "No data was scraped. CSV file will not be created."
MsgSaved        == "Success! Scraped jobs and saved"
MsgUnexpected   == "An unexpected error occurred"
MsgClosing      == "Closing the WebDriver."

\* ---------------------------------------------------------------- state
VARIABLES
  variant,       \* which script runs: "static" (test1.py) or "dynamic" (test2.py)
  pc,            \* position in the script
  limit,         \* pages_to_scrape (dynamic)
  page_num,      \* the for loop's index (dynamic)
  status,        \* the HTTP status of the response, None before / without one
  container,     \* "unknown", "present" or "absent": the listing container
  cards,         \* job_cards of the current page
  cardIdx,       \* cards already handled by the for-card loop
  nextBtn,       \* "unknown", "absent", "disabled", "enabled": the next control
  jobs_data,     \* the list the extractor appends to
  scraped_data,  \* what __main__ got back: None or a list
  file,          \* NoFile or the CSV written
  log,           \* the diagnostics printed, in order
  driver,        \* "None", "open" (a browser session is held) or "quit"
  exc,           \* the exception raised, "none" if none
  fetches,       \* requests.get calls made (static)
  cycles,        \* passes of the page loop started (dynamic)
  clicks         \* next-page clicks made (dynamic)

vars == <<variant, pc, limit, page_num, status, container, cards, cardIdx, nextBtn,
          jobs_data, scraped_data, file, log, driver, exc, fetches, cycles, clicks>>

Init ==
  /\ variant \in {"static", "dynamic"}
  /\ pc = IF variant = "static" THEN "s_fetch" ELSE "d_setup"
  /\ limit \in (IF variant = "static" THEN {0} ELSE 0..MaxPages)
  /\ page_num = 0
  /\ status = None
  /\ container = "unknown"
  /\ cards = <<>>
  /\ cardIdx = 0
  /\ nextBtn = "unknown"
  /\ jobs_data = <<>>
  /\ scraped_data = None
  /\ file = NoFile
  /\ log = <<>>
  /\ driver = "None"
  /\ exc = "none"
  /\ fetches = 0
  /\ cycles = 0
  /\ clicks = 0

Say(msg) == log' = Append(log, msg)

\* ------------------------------------------------- test1.py (static)
\* requests.get raised (no response): except RequestException, return None.
S_FetchNetworkError ==
  /\ pc = "s_fetch"
  /\ fetches' = fetches + 1
  /\ Say(MsgFetchError)
  /\ pc' = "s_main"
  /\ UNCHANGED <<variant, limit, page_num, status, container, cards, cardIdx, nextBtn,
                 jobs_data, scraped_data, file, driver, exc, cycles, clicks>>

\* requests.get answered with a status and a body; raise_for_status decides.
S_FetchResponse ==
  /\ pc = "s_fetch"
  /\ fetches' = fetches + 1
  /\ \E st \in {200, 304, 404, 503}, present \in BOOLEAN, cs \in SeqsUpTo(StaticCards, MaxCards) :
       /\ present = FALSE => cs = <<>>
       /\ status' = Some(st)
       /\ IF RaisesForStatus(st)
          THEN /\ Say(MsgFetchError)
               /\ pc' = "s_main"
               /\ present = FALSE
               /\ UNCHANGED <<container, cards>>
          ELSE /\ pc' = "s_container"
               /\ container' = IF present THEN "present" ELSE "absent"
               /\ cards' = cs
               /\ UNCHANGED log
  /\ UNCHANGED <<variant, limit, page_num, cardIdx, nextBtn, jobs_data, scraped_data,
                 file, driver, exc, cycles, clicks>>

\* A faulty variant: the missing container is reported but the function does not return.
S_FindContainerFallsThrough ==
  /\ pc = "s_container"
  /\ IF container = "absent" THEN Say(MsgNoContainer) ELSE UNCHANGED log
  /\ pc' = "s_cards"
  /\ UNCHANGED <<variant, limit, page_num, status, container, cards, cardIdx, nextBtn,
                 jobs_data, scraped_data, file, driver, exc, fetches, cycles, clicks>>

\* soup.find('div', id='mosaic-provider-jobcards'); if not found, return None.
S_FindContainer ==
  /\ pc = "s_container"
  /\ IF container = "absent"
     THEN Say(MsgNoContainer) /\ pc' = "s_main"
     ELSE UNCHANGED log /\ pc' = "s_cards"
  /\ UNCHANGED <<variant, limit, page_num, status, container, cards, cardIdx, nextBtn,
                 jobs_data, scraped_data, file, driver, exc, fetches, cycles, clicks>>

\* find_all('a', class_='tapItem'); if none, return None; else jobs_data = [].
S_FindCards ==
  /\ pc = "s_cards"
  /\ IF cards = <<>>
     THEN Say(MsgNoCards) /\ pc' = "s_main"
     ELSE UNCHANGED log /\ pc' = "s_extract"
  /\ UNCHANGED <<variant, limit, page_num, status, container, cards, cardIdx, nextBtn,
                 jobs_data, scraped_data, file, driver, exc, fetches, cycles, clicks>>

\* One pass of `for card in job_cards`; card['href'] raises KeyError when the
\* attribute is missing, and nothing in the script catches it.
S_ExtractCard ==
  /\ pc = "s_extract"
  /\ cardIdx < Len(cards)
  /\ LET card == cards[cardIdx + 1]
     IN IF card.href = NoAttr
        THEN /\ exc' = "KeyError"
             /\ pc' = "crashed"
             /\ UNCHANGED <<jobs_data, cardIdx>>
        ELSE /\ jobs_data' = Append(jobs_data, StaticRecord(card))
             /\ cardIdx' = cardIdx + 1
             /\ UNCHANGED <<exc, pc>>
  /\ UNCHANGED <<variant, limit, page_num, status, container, cards, nextBtn,
                 scraped_data, file, log, driver, fetches, cycles, clicks>>

\* The loop is over: return jobs_data.
S_Return ==
  /\ pc = "s_extract"
  /\ cardIdx = Len(cards)
  /\ scraped_data' = Some(jobs_data)
  /\ pc' = "s_main"
  /\ UNCHANGED <<variant, limit, page_num, status, container, cards, cardIdx, nextBtn,
                 jobs_data, file, log, driver, exc, fetches, cycles, clicks>>

\* save_to_csv of test1.py
S_SaveToCsv(data) ==
  IF ~Truthy(data)
  THEN Say(MsgNoDataStatic) /\ UNCHANGED file
  ELSE file' = Some(ToCsv(Get(data))) /\ Say(MsgSavedStatic)

\* __main__: if scraped_data: save_to_csv(...)
S_Main ==
  /\ pc = "s_main"
  /\ IF Truthy(scraped_data)
     THEN S_SaveToCsv(scraped_data)
     ELSE UNCHANGED <<file, log>>
  /\ pc' = "done"
  /\ UNCHANGED <<variant, limit, page_num, status, container, cards, cardIdx, nextBtn,
                 jobs_data, scraped_data, driver, exc, fetches, cycles, clicks>>

StaticNext ==
  \/ S_FetchNetworkError
  \/ S_FetchResponse
  \/ S_FindContainer
  \/ S_FindCards
  \/ S_ExtractCard
  \/ S_Return
  \/ S_Main

\* ------------------------------------------------ test2.py (dynamic)
\* driver = setup_driver()
D_Setup ==
  /\ pc = "d_setup"
  /\ driver' = "open"
  /\ pc' = "d_get"
  /\ UNCHANGED <<variant, limit, page_num, status, container, cards, cardIdx, nextBtn,
                 jobs_data, scraped_data, file, log, exc, fetches, cycles, clicks>>

\* scrape_google_jobs up to the loop: driver.get(search_url); jobs_data = [].
D_Get ==
  /\ pc = "d_get"
  /\ fetches' = fetches + 1
  /\ jobs_data' = <<>>
  /\ page_num' = 0
  /\ pc' = "d_loop"
  /\ UNCHANGED <<variant, limit, status, container, cards, cardIdx, nextBtn,
                 scraped_data, file, log, driver, exc, cycles, clicks>>

\* A faulty variant: the timeout leaves the whole scrape (nothing returned, nothing saved).
D_WaitTimeoutExits ==
  /\ pc = "d_loop"
  /\ page_num < limit
  /\ cycles' = cycles + 1
  /\ container' = "absent"
  /\ cards' = <<>>
  /\ cardIdx' = 0
  /\ nextBtn' = "unknown"
  /\ Say(MsgTimeout)
  /\ pc' = "d_finally"
  /\ UNCHANGED <<variant, limit, page_num, status, jobs_data, scraped_data, file,
                 driver, exc, fetches, clicks>>

\* A pass of `for page_num in range(pages_to_scrape)` starts: the wait for the
\* container 'sp2RC' expires (TimeoutException: print, break).
D_WaitTimeout ==
  /\ pc = "d_loop"
  /\ page_num < limit
  /\ cycles' = cycles + 1
  /\ container' = "absent"
  /\ cards' = <<>>
  /\ cardIdx' = 0
  /\ nextBtn' = "unknown"
  /\ Say(MsgTimeout)
  /\ pc' = "d_return"
  /\ UNCHANGED <<variant, limit, page_num, status, jobs_data, scraped_data, file,
                 driver, exc, fetches, clicks>>

\* A faulty variant: jobs_data = [] sits inside the page loop.
D_WaitFoundResets ==
  /\ pc = "d_loop"
  /\ page_num < limit
  /\ cycles' = cycles + 1
  /\ container' = "present"
  /\ \E cs \in SeqsUpTo(DynCards, MaxCards) : cards' = cs
  /\ cardIdx' = 0
  /\ nextBtn' = "unknown"
  /\ jobs_data' = <<>>
  /\ pc' = "d_cards"
  /\ UNCHANGED <<variant, limit, page_num, status, scraped_data, file, log,
                 driver, exc, fetches, clicks>>

\* A pass starts and the container appears: find_elements gives the cards.
D_WaitFound ==
  /\ pc = "d_loop"
  /\ page_num < limit
  /\ cycles' = cycles + 1
  /\ container' = "present"
  /\ \E cs \in SeqsUpTo(DynCards, MaxCards) : cards' = cs
  /\ cardIdx' = 0
  /\ nextBtn' = "unknown"
  /\ pc' = "d_cards"
  /\ UNCHANGED <<variant, limit, page_num, status, jobs_data, scraped_data, file, log,
                 driver, exc, fetches, clicks>>

\* if not job_cards: print, break
D_FindCards ==
  /\ pc = "d_cards"
  /\ IF cards = <<>>
     THEN Say(MsgNoCardsPage) /\ pc' = "d_return"
     ELSE UNCHANGED log /\ pc' = "d_extract"
  /\ UNCHANGED <<variant, limit, page_num, status, container, cards, cardIdx, nextBtn,
                 jobs_data, scraped_data, file, driver, exc, fetches, cycles, clicks>>

\* One pass of `for card in job_cards`: a record is appended, or the card raises
\* NoSuchElementException and is skipped.
D_ExtractCard ==
  /\ pc = "d_extract"
  /\ cardIdx < Len(cards)
  /\ LET card == cards[cardIdx + 1]
     IN IF DynRaises(card)
        THEN Say(MsgSkipCard) /\ UNCHANGED jobs_data
        ELSE jobs_data' = Append(jobs_data, DynRecord(card)) /\ UNCHANGED log
  /\ cardIdx' = cardIdx + 1
  /\ UNCHANGED <<variant, pc, limit, page_num, status, container, cards, nextBtn,
                 scraped_data, file, driver, exc, fetches, cycles, clicks>>

\* A faulty variant: the lookup of the next control is not wrapped in try/except, so a
\* missing control raises NoSuchElementException out of the function.
D_PaginateUncaught ==
  /\ pc = "d_extract"
  /\ cardIdx = Len(cards)
  /\ \E ctl \in {"absent", "disabled", "enabled"} :
       /\ nextBtn' = ctl
       /\ IF ctl = "enabled"
          THEN /\ clicks' = clicks + 1
               /\ page_num' = page_num + 1
               /\ pc' = "d_loop"
               /\ container' = "unknown"
               /\ cards' = <<>>
               /\ cardIdx' = 0
               /\ UNCHANGED <<log, exc>>
          ELSE IF ctl = "absent"
          THEN /\ exc' = "NoSuchElementException"
               /\ pc' = "d_except"
               /\ UNCHANGED <<log, clicks, page_num, container, cards, cardIdx>>
          ELSE /\ Say(MsgNextDisabled)
               /\ pc' = "d_return"
               /\ UNCHANGED <<clicks, page_num, container, cards, cardIdx, exc>>
  /\ UNCHANGED <<variant, limit, status, jobs_data,
                 scraped_data, file, driver, fetches, cycles>>

\* The pagination block after the cards of a page: find the next control; click it
\* and sleep when it is displayed and enabled (the browser leaves the page: its
\* elements are gone), else break.
D_Paginate ==
  /\ pc = "d_extract"
  /\ cardIdx = Len(cards)
  /\ \E ctl \in {"absent", "disabled", "enabled"} :
       /\ nextBtn' = ctl
       /\ IF ctl = "enabled"
          THEN /\ clicks' = clicks + 1
               /\ page_num' = page_num + 1
               /\ pc' = "d_loop"
               /\ container' = "unknown"
               /\ cards' = <<>>
               /\ cardIdx' = 0
               /\ UNCHANGED log
          ELSE /\ Say(IF ctl = "absent" THEN MsgNoNext ELSE MsgNextDisabled)
               /\ pc' = "d_return"
               /\ UNCHANGED <<clicks, page_num, container, cards, cardIdx>>
  /\ UNCHANGED <<variant, limit, status, jobs_data,
                 scraped_data, file, driver, exc, fetches, cycles>>

\* range(pages_to_scrape) is used up: the loop ends.
D_LoopEnd ==
  /\ pc = "d_loop"
  /\ page_num >= limit
  /\ pc' = "d_return"
  /\ UNCHANGED <<variant, limit, page_num, status, container, cards, cardIdx, nextBtn,
                 jobs_data, scraped_data, file, log, driver, exc, fetches, cycles, clicks>>

\* return jobs_data; scraped_data = scrape_google_jobs(...)
D_Return ==
  /\ pc = "d_return"
  /\ scraped_data' = Some(jobs_data)
  /\ pc' = "d_save"
  /\ UNCHANGED <<variant, limit, page_num, status, container, cards, cardIdx, nextBtn,
                 jobs_data, file, log, driver, exc, fetches, cycles, clicks>>

\* save_to_csv of test2.py
D_SaveToCsv ==
  /\ pc = "d_save"
  /\ IF ~Truthy(scraped_data)
     THEN Say(MsgNoDataCsv) /\ UNCHANGED file
     ELSE file' = Some(ToCsv(Get(scraped_data))) /\ Say(MsgSaved)
  /\ pc' = "d_finally"
  /\ UNCHANGED <<variant, limit, page_num, status, container, cards, cardIdx, nextBtn,
                 jobs_data, scraped_data, driver, exc, fetches, cycles, clicks>>

\* finally: if driver: driver.quit()
D_Finally ==
  /\ pc = "d_finally"
  /\ IF driver = "open"
     THEN driver' = "quit" /\ Say(MsgClosing)
     ELSE UNCHANGED <<driver, log>>
  /\ pc' = "done"
  /\ UNCHANGED <<variant, limit, page_num, status, container, cards, cardIdx, nextBtn,
                 jobs_data, scraped_data, file, exc, fetches, cycles, clicks>>

DynamicNext ==
  \/ D_Setup
  \/ D_Get
  \/ D_WaitTimeout
  \/ D_WaitFound
  \/ D_FindCards
  \/ D_ExtractCard
  \/ D_Paginate
  \/ D_LoopEnd
  \/ D_Return
  \/ D_SaveToCsv
  \/ D_Finally

Next == StaticNext \/ DynamicNext

\* ------------------------------------- exceptions the environment raises
\* setup_driver() raises (no Chrome, no driver download): driver stays None.
F_SetupRaises ==
  /\ pc = "d_setup"
  /\ exc' = "WebDriverException"
  /\ pc' = "d_except"
  /\ UNCHANGED <<variant, limit, page_num, status, container, cards, cardIdx, nextBtn,
                 jobs_data, scraped_data, file, log, driver, fetches, cycles, clicks>>

\* A driver call in scrape_google_jobs (get, wait.until, find_elements, an element
\* read, the click) raises something the function does not catch (the browser
\* died, the network is down, a stale element): it reaches __main__'s handler.
F_ScrapeRaises ==
  /\ pc \in {"d_get", "d_loop", "d_cards", "d_extract"}
  /\ pc = "d_loop" => page_num < limit
  /\ exc' = "WebDriverException"
  /\ pc' = "d_except"
  /\ UNCHANGED <<variant, limit, page_num, status, container, cards, cardIdx, nextBtn,
                 jobs_data, scraped_data, file, log, driver, fetches, cycles, clicks>>

\* df.to_csv raises (disk full, no permission): no file is left.
F_SaveRaises ==
  /\ pc = "d_save"
  /\ Truthy(scraped_data)
  /\ exc' = "OSError"
  /\ pc' = "d_except"
  /\ UNCHANGED <<variant, limit, page_num, status, container, cards, cardIdx, nextBtn,
                 jobs_data, scraped_data, file, log, driver, fetches, cycles, clicks>>

\* A faulty variant: driver.quit() is not in a finally block, the handler ends the run.
D_ExceptNoFinally ==
  /\ pc = "d_except"
  /\ Say(MsgUnexpected)
  /\ pc' = "done"
  /\ UNCHANGED <<variant, limit, page_num, status, container, cards, cardIdx, nextBtn,
                 jobs_data, scraped_data, file, driver, exc, fetches, cycles, clicks>>

\* except Exception as e: print(...)
D_Except ==
  /\ pc = "d_except"
  /\ Say(MsgUnexpected)
  /\ pc' = "d_finally"
  /\ UNCHANGED <<variant, limit, page_num, status, container, cards, cardIdx, nextBtn,
                 jobs_data, scraped_data, file, driver, exc, fetches, cycles, clicks>>

FaultNext ==
  \/ F_SetupRaises
  \/ F_ScrapeRaises
  \/ F_SaveRaises
  \/ D_Except

NextF == DynamicNext \/ FaultNext

\* A run of test2.py
DynInit == Init /\ variant = "dynamic"

\* The runs in which the site answers and nothing else fails.
Spec == Init /\ [][Next]_vars

\* The runs of test2.py in which the site answers and nothing else fails.  The
\* script is one sequential process: it always takes its next step.
LiveSpec == DynInit /\ [][DynamicNext]_vars /\ WF_vars(DynamicNext)

\* The runs of test2.py in which the browser and the disk may fail too.
FaultSpec == DynInit /\ [][NextF]_vars /\ WF_vars(NextF)

\* ------------------------------------------------------------ helpers
HasMsg(m) == \E i \in 1..Len(log) : log[i] = m

IsPrefix(a, b) == Len(a) <= Len(b) /\ SubSeq(b, 1, Len(a)) = a

LastN(s, n) == SubSeq(s, Len(s) - n + 1, Len(s))

Field(rec, i) == rec[i][2]

Hosts == {Host, "www.google.com"}
UrlPaths == PathTokens \cup {"/about/careers/applications/jobs/results/1"}

\* scheme, host, then path segments only
IsAbsoluteUrl(u) ==
  /\ Len(u) >= 2
  /\ u[1] = Scheme
  /\ u[2] \in Hosts
  /\ \A i \in 3..Len(u) : u[i] \in UrlPaths

Ended == pc \in {"done", "crashed"}

\* ------------------------------------------------------------- claims

\* C1: in the dynamic variant a run with page limit P starts at most P passes of
\* the page loop and always ends; when no next-page control is found the loop
\* ends at that page (no further pass) and no exception is raised.
C1_PaginationBoundedAndEnds ==
  /\ [](cycles <= limit)
  /\ <>(pc = "done")
  /\ [][(pc = "d_extract" /\ nextBtn' = "absent")
          => (pc' = "d_return" /\ exc' = "none" /\ cycles' = cycles)]_vars
  /\ [][(nextBtn = "absent") => (cycles' = cycles /\ clicks' = clicks)]_vars

C1_Witness ==
  /\ variant = "dynamic" /\ pc = "done" /\ exc = "none"
  /\ nextBtn = "absent" /\ limit = 2 /\ cycles = 1

\* C2: a dynamic run that opened a browser session has quit it when the run is
\* over, whichever way it ended (normal end, timeout, no cards, no next control,
\* an exception while scraping, an exception while saving).
C2_DriverReleased ==
  (variant = "dynamic" /\ pc = "done") => driver # "open"

C2_Witness ==
  /\ pc = "done" /\ driver = "quit" /\ exc = "OSError" /\ HasMsg(MsgUnexpected)

ClaimedField(element) == IF element = <<>> THEN <<"N/A">> ELSE Get(element)

\* C3 as stated: every marker handled so far has yielded a record, with each
\* missing sub-field replaced by the sentinel, and no read aborts the extraction.
C3_EveryMarkerYieldsRecord ==
  /\ pc # "crashed"
  /\ (variant = "static" /\ pc = "s_extract") =>
       /\ Len(jobs_data) = cardIdx
       /\ \A i \in 1..cardIdx :
            /\ Field(jobs_data[i], 1) = Strip(ClaimedField(cards[i].title))
            /\ Field(jobs_data[i], 2) = Strip(ClaimedField(cards[i].company))
            /\ Field(jobs_data[i], 3) = Strip(ClaimedField(cards[i].location))
  /\ (variant = "dynamic" /\ pc = "d_extract") =>
       /\ Len(jobs_data) >= cardIdx
       /\ \A i \in 1..cardIdx :
            LET rec == LastN(jobs_data, cardIdx)[i]
            IN /\ Field(rec, 1) = ClaimedField(cards[i].title)
               /\ Field(rec, 4) = ClaimedField(cards[i].anchor)

\* The cards of a dynamic page that carry both a title element and an anchor.
RECURSIVE Complete(_)
Complete(cs) ==
  IF cs = <<>> THEN <<>>
  ELSE IF Head(cs).title # <<>> /\ Head(cs).anchor # <<>>
       THEN <<Head(cs)>> \o Complete(Tail(cs))
       ELSE Complete(Tail(cs))

\* C3 amended: the static extractor yields one record per marker as long as the
\* markers carry an href, with title, company and location each replaced by
\* 'N/A' on its own when missing, and the run dies with KeyError (no records
\* returned, no file) at the first marker without href; the dynamic extractor
\* yields, in order, one record per marker that has both a title element and an
\* anchor, skips every other marker and goes on with the rest, writes 'Google'
\* as company and the joined location texts (empty when there are none).
C3_ExtractionPerMarker ==
  /\ (variant = "static" /\ pc \in {"s_extract", "crashed", "s_main", "done"}) =>
       /\ Len(jobs_data) = cardIdx
       /\ (pc \in {"s_main", "done"}) => Len(jobs_data) = Len(cards)
       /\ \A i \in 1..cardIdx :
            /\ cards[i].href # <<>>
            /\ Field(jobs_data[i], 1) =
                 (IF cards[i].title = <<>> THEN <<"N/A">> ELSE <<"Python Developer">>)
            /\ Field(jobs_data[i], 2) =
                 (IF cards[i].company = <<>> THEN <<"N/A">> ELSE <<"Acme">>)
            /\ Field(jobs_data[i], 3) =
                 (IF cards[i].location = <<>> THEN <<"N/A">> ELSE <<"Remote">>)
            /\ Field(jobs_data[i], 4) = <<"https://", "www.indeed.com">> \o Get(cards[i].href)
       /\ (pc = "crashed") => (cardIdx < Len(cards) /\ cards[cardIdx + 1].href = <<>>)
       /\ (pc = "crashed") => (scraped_data = None /\ file = NoFile)
  /\ (variant = "dynamic" /\ pc = "d_extract") =>
       LET kept == Complete(SubSeq(cards, 1, cardIdx))
       IN /\ Len(jobs_data) >= Len(kept)
          /\ \A i \in 1..Len(kept) :
               LET rec == LastN(jobs_data, Len(kept))[i]
               IN /\ Field(rec, 1) = Get(kept[i].title)
                  /\ Field(rec, 2) = <<"Google">>
                  /\ Field(rec, 3) = (IF kept[i].locs = <<>> THEN <<>>
                                      ELSE <<"Zurich", ", ", "London">>)
                  /\ Field(rec, 4) = Get(kept[i].anchor)

C3_Witness ==
  \/ /\ variant = "static" /\ pc = "done" /\ Len(jobs_data) = 2
     /\ cards[1].company = <<>> /\ cards[1].title # <<>>
     /\ cards[2].title = <<>> /\ cards[2].location = <<>>
  \/ /\ variant = "dynamic" /\ pc = "d_extract" /\ cardIdx = 2 /\ page_num = 0
     /\ cards[1].title = <<>> /\ cards[2].locs = <<>> /\ Len(jobs_data) = 1

\* C4 as stated: whenever the container was absent, the run ends with zero
\* records and no file, having printed the structural diagnostic and not the
\* zero-results one.
C4_AbsentContainerNoRecordsNoFile ==
  (pc = "done" /\ container = "absent") =>
    /\ jobs_data = <<>>
    /\ file = NoFile
    /\ IF variant = "static"
       THEN HasMsg(MsgNoContainer) /\ ~HasMsg(MsgNoCards)
       ELSE HasMsg(MsgTimeout) /\ ~HasMsg(MsgNoCardsPage)

\* C4 amended: when the container is absent from the page of the static variant,
\* or the wait for it expires on the FIRST page of the dynamic variant, the run
\* ends with zero records and no file; in every case of an absent container
\* (later pages included) the structural diagnostic is printed and the
\* zero-results diagnostic is not, and a file exists only if earlier pages
\* yielded records.
C4_AbsentContainerFirstPage ==
  (pc = "done" /\ container = "absent") =>
    /\ (variant = "static" \/ page_num = 0) => (jobs_data = <<>> /\ file = NoFile)
    /\ (file # NoFile) => (variant = "dynamic" /\ page_num > 0 /\ jobs_data # <<>>)
    /\ IF variant = "static"
       THEN HasMsg(MsgNoContainer) /\ ~HasMsg(MsgNoCards)
       ELSE HasMsg(MsgTimeout) /\ ~HasMsg(MsgNoCardsPage)

C4_Witness ==
  /\ pc = "done" /\ container = "absent" /\ variant = "dynamic" /\ page_num = 0
  /\ file = NoFile /\ HasMsg(MsgTimeout)

\* C5: a run that found the container with zero item markers prints the
\* zero-results diagnostic and not the structural one, a run that missed the
\* container prints the structural one and not the zero-results one: the two
\* outcomes are never reported alike, in either variant.
C5_ZeroResultsDistinctFromStructural ==
  /\ (pc = "done" /\ container = "present" /\ cards = <<>>) =>
       IF variant = "static"
       THEN HasMsg(MsgNoCards) /\ ~HasMsg(MsgNoContainer)
       ELSE HasMsg(MsgNoCardsPage) /\ ~HasMsg(MsgTimeout)
  /\ (pc = "done" /\ container = "absent") =>
       IF variant = "static"
       THEN HasMsg(MsgNoContainer) /\ ~HasMsg(MsgNoCards)
       ELSE HasMsg(MsgTimeout) /\ ~HasMsg(MsgNoCardsPage)

C5_Witness ==
  /\ pc = "done" /\ container = "present" /\ cards = <<>>
  /\ variant = "static" /\ HasMsg(MsgNoCards)

\* The rows a CSV holds for a list of records: the four values in key order.
RowsOf(data) == [i \in 1..Len(data) |-> [c \in 1..4 |-> data[i][c][2]]]

\* C6: in the dynamic variant a wait that expires on a page after the first,
\* once earlier pages yielded records, only ends the loop: the step leaves the
\* collected records as they are and raises nothing, the records are returned
\* unchanged and written to the file, and the browser is quit.
C6_LaterTimeoutKeepsRecords ==
  /\ [][(pc = "d_loop" /\ container' = "absent" /\ cycles' # cycles)
          => (jobs_data' = jobs_data /\ exc' = "none" /\ pc' = "d_return")]_vars
  /\ []((variant = "dynamic" /\ pc = "done" /\ container = "absent"
          /\ page_num >= 1 /\ jobs_data # <<>>) =>
         /\ scraped_data = Some(jobs_data)
         /\ file # NoFile
         /\ Get(file).rows = RowsOf(jobs_data)
         /\ exc = "none"
         /\ ~HasMsg(MsgUnexpected)
         /\ driver = "quit")

C6_Witness ==
  /\ variant = "dynamic" /\ pc = "done" /\ container = "absent" /\ page_num = 1
  /\ Len(jobs_data) = 2 /\ file # NoFile /\ driver = "quit"

\* C7 as stated: with page limit P no next-page click follows the P-th page, so
\* a run makes at most P-1 clicks.
C7_NoClickAtPageLimit ==
  variant = "dynamic" => (clicks = 0 \/ clicks < limit)

\* C8 as stated: the link of every record is the sentinel or a well-formed
\* absolute URL (scheme, host, path), whatever form the href took.
C8_LinkAbsoluteOrSentinel ==
  \A i \in 1..Len(jobs_data) :
    Field(jobs_data[i], 4) = <<"N/A">> \/ IsAbsoluteUrl(Field(jobs_data[i], 4))

FetchFailedAsClaimed ==
  \/ (status = None /\ fetches = 1)
  \/ (status # None /\ ~(Get(status) >= 200 /\ Get(status) < 300))

\* C10 as stated: the static variant fetches once and never again; when the
\* fetch fails (network error or a status outside 2xx) the run prints a
\* diagnostic, extracts nothing, writes no file and ends without an unhandled
\* exception; a file is written only after a 2xx fetch that yielded records.
C10_FetchOnceAbortOnNon2xx ==
  (variant = "static") =>
    /\ fetches <= 1
    /\ (pc # "s_fetch") => fetches = 1
    /\ (Ended /\ FetchFailedAsClaimed) =>
         /\ log # <<>>
         /\ jobs_data = <<>> /\ cardIdx = 0
         /\ file = NoFile
         /\ exc = "none"
    /\ (file # NoFile) => (~FetchFailedAsClaimed /\ jobs_data # <<>>)

\* C10 amended: the static variant fetches once and never again; when the fetch
\* fails (network error or a 4xx/5xx status) the run prints the fetch
\* diagnostic, extracts nothing, writes no file and ends without an unhandled
\* exception; a file is written only after a fetch that did not fail in that
\* sense and yielded records.
C10_FetchOnceAbortOn4xx5xx ==
  (variant = "static") =>
    LET failed == \/ (status = None /\ fetches = 1)
                  \/ (status # None /\ Get(status) >= 400 /\ Get(status) <= 599)
    IN /\ fetches <= 1
       /\ (pc # "s_fetch") => fetches = 1
       /\ (pc # "s_fetch" /\ failed) =>
            /\ HasMsg(MsgFetchError)
            /\ pc \in {"s_main", "done"}
            /\ jobs_data = <<>> /\ cardIdx = 0 /\ container = "unknown"
            /\ file = NoFile
            /\ exc = "none"
       /\ (file # NoFile) => (~failed /\ jobs_data # <<>>)

C10_Witness ==
  /\ variant = "static" /\ pc = "done" /\ status = Some(404)
  /\ HasMsg(MsgFetchError) /\ file = NoFile /\ fetches = 1
====
